---- MODULE Spec2Model ----
(***************************************************************************)
(* Model of thorlabs_MDT694B.Controller: the delimiter-framed _send, the   *)
(* constructor's verification sequence, get_voltage, set_voltage,          *)
(* _finish_set_voltage and close, against a serial port and a device.      *)
(*                                                                         *)
(* Text is a sequence of tokens.  The characters the code inspects         *)
(* (line feed, carriage return, brackets, the prompt, and every character  *)
(* of a text handed to float() or int()) are one token each; any other run *)
(* of characters the code only compares as a whole is one token.           *)
(* A target voltage is an integer in millivolts (1 V = 1000) with its sign *)
(* bit kept apart where -0.0 matters; a voltage read with float() is the   *)
(* double of the text, kept as the decimal or binary number that names it. *)
(***************************************************************************)
EXTENDS Integers, Sequences, FiniteSets, TLC

LF == "\n"
CR == "\r"
PROMPT == ">"
\* Python's None, and a value that is present, as a sequence of length 0 or 1;
\* a command (never empty) stands for itself
None == <<>>
\* no exception was raised
NoError == "no exception"

\* ------------------------------------------------------------------------
\* Bounds of the model
\* ------------------------------------------------------------------------
\* counters of writes, poll cycles and settle completions stop counting here
MaxCount == 3

\* ------------------------------------------------------------------------
\* Python string and number primitives over token sequences
\* ------------------------------------------------------------------------
DigitChars == <<"0", "1", "2", "3", "4", "5", "6", "7", "8", "9">>

IsDigit(c) == \E i \in 1..Len(DigitChars) : DigitChars[i] = c

DigitVal(c) == (CHOOSE i \in 1..Len(DigitChars) : DigitChars[i] = c) - 1

RECURSIVE DigitsVal(_)
DigitsVal(s) ==
    IF s = <<>> THEN 0
    ELSE 10 * DigitsVal(SubSeq(s, 1, Len(s) - 1)) + DigitVal(s[Len(s)])

RECURSIVE NatDigits(_)
NatDigits(n) ==
    IF n < 10 THEN <<DigitChars[n + 1]>>
    ELSE NatDigits(n \div 10) \o <<DigitChars[(n % 10) + 1]>>

\* str.split(sep): the segments between the separators, always at least one
RECURSIVE split(_, _)
split(s, sep) ==
    IF \A i \in 1..Len(s) : s[i] # sep THEN <<s>>
    ELSE LET k == CHOOSE i \in 1..Len(s) :
                      s[i] = sep /\ \A j \in 1..(i - 1) : s[j] # sep
         IN  <<SubSeq(s, 1, k - 1)>> \o split(SubSeq(s, k + 1, Len(s)), sep)

\* str.rstrip(ch)
RECURSIVE rstrip(_, _)
rstrip(s, ch) ==
    IF s # <<>> /\ s[Len(s)] = ch THEN rstrip(SubSeq(s, 1, Len(s) - 1), ch)
    ELSE s

\* r.replace('[','').replace(']','')
strip_brackets(r) == SelectSeq(r, LAMBDA t : t \notin {"[", "]"})

\* 2^k modulo 1000
RECURSIVE Pow2Mod1000(_)
Pow2Mod1000(k) == IF k = 0 THEN 1 ELSE (2 * Pow2Mod1000(k - 1)) % 1000

\* the k with 2^52 <= (mv / 1000) * 2^k < 2^53, for mv > 0: the scale of the
\* 53-bit significand of the double nearest to mv / 1000
RECURSIVE SignificandScale(_, _)
SignificandScale(n, k) ==
    IF n < 1000 THEN SignificandScale(2 * n, k + 1)
    ELSE IF n >= 2000 THEN SignificandScale(n \div 2, k - 1)
    ELSE k

\* the number of hundredths '%0.2f' prints for the double nearest to
\* mv / 1000, mv >= 0.  Off the halfway points that is mv / 10 rounded.  At
\* a halfway point (mv ends in 5) the digits depend on the double itself:
\* when mv / 1000 is a double (mv a multiple of 125) the tie goes to the
\* even hundredth; otherwise the double lies below or above mv / 1000,
\* which the remainder of mv * 2^k by 1000 tells (it is never 0 nor 500),
\* and the digits go down or up with it.
Hundredths(mv) ==
    LET h == mv \div 10
    IN  IF mv % 10 # 5 THEN (mv + 5) \div 10
        ELSE IF mv % 125 = 0 THEN (IF h % 2 = 0 THEN h ELSE h + 1)
        ELSE IF ((mv % 1000) * Pow2Mod1000(SignificandScale(mv, 52))) % 1000
                   < 500
        THEN h ELSE h + 1

\* '%0.1f' % target: one decimal instead of two
format_1f(minus, mv) ==
    LET a == IF mv < 0 THEN 0 - mv ELSE mv
        t == (a + 50) \div 100
    IN  (IF minus THEN <<"-">> ELSE <<>>)
          \o NatDigits(t \div 10) \o <<".", DigitChars[(t % 10) + 1]>>

\* '%0.2f' % target for the float of sign bit `minus` and value mv
\* millivolts (minus is set for mv < 0 and for -0.0): the sign, at least
\* one integer digit, two decimals
format_2f(minus, mv) ==
    LET h == Hundredths(IF mv < 0 THEN 0 - mv ELSE mv)
    IN  (IF minus THEN <<"-">> ELSE <<>>)
          \o NatDigits(h \div 100)
          \o <<".", DigitChars[((h \div 10) % 10) + 1], DigitChars[(h % 10) + 1]>>

\* the characters float() and int() drop at both ends of a text decoded
\* from ASCII (line 44): blank, tab, line feed, vertical tab, form feed,
\* carriage return
Blanks == {" ", "\t", "\n", "", "\f", "\r"}

RECURSIVE strip(_)
strip(s) ==
    IF s # <<>> /\ s[1] \in Blanks THEN strip(Tail(s))
    ELSE IF s # <<>> /\ s[Len(s)] \in Blanks
    THEN strip(SubSeq(s, 1, Len(s) - 1))
    ELSE s

\* str.lower() on the letters of 'inf', 'infinity' and 'nan'
Lower(c) ==
    CASE c = "N" -> "n" [] c = "A" -> "a" [] c = "I" -> "i" [] c = "F" -> "f"
      [] c = "T" -> "t" [] c = "Y" -> "y" [] OTHER -> c

lower(s) == [i \in 1..Len(s) |-> Lower(s[i])]

\* the text after the blanks and the optional sign, '+' or '-'
Unsigned(s) ==
    LET t == strip(s)
    IN  IF t # <<>> /\ t[1] \in {"-", "+"} THEN Tail(t) ELSE t

IsNegative(s) == LET t == strip(s) IN t # <<>> /\ t[1] = "-"

\* digits, single underscores allowed between two digits
is_digit_part(d) ==
    /\ d # <<>>
    /\ \A i \in 1..Len(d) :
         \/ IsDigit(d[i])
         \/ /\ d[i] = "_"
            /\ 1 < i /\ i < Len(d)
            /\ IsDigit(d[i - 1]) /\ IsDigit(d[i + 1])

digits_of(d) == SelectSeq(d, IsDigit)

\* a number text without its sign: the part before the exponent mark and
\* the exponent (empty when there is no mark)
HasExponent(u) == \E i \in 1..Len(u) : u[i] \in {"e", "E"}

ExponentAt(u) == CHOOSE i \in 1..Len(u) :
                     u[i] \in {"e", "E"} /\ \A j \in 1..(i - 1) : u[j] \notin {"e", "E"}

Mantissa(u) == IF HasExponent(u) THEN SubSeq(u, 1, ExponentAt(u) - 1) ELSE u

Exponent(u) ==
    IF HasExponent(u) THEN SubSeq(u, ExponentAt(u) + 1, Len(u)) ELSE <<>>

\* the text float() accepts: blanks around; an optional sign; then 'inf',
\* 'infinity' or 'nan' in any case, or digits with at most one decimal
\* point and at least one digit, and an optional exponent
is_float_text(s) ==
    LET u == Unsigned(s)
        m == Mantissa(u)
        x == Exponent(u)
        parts == split(m, ".")
    IN  \/ lower(u) \in {<<"i", "n", "f">>, <<"n", "a", "n">>,
                         <<"i", "n", "f", "i", "n", "i", "t", "y">>}
        \/ /\ \/ Len(parts) = 1 /\ is_digit_part(parts[1])
              \/ /\ Len(parts) = 2
                 /\ parts[1] = <<>> \/ is_digit_part(parts[1])
                 /\ parts[2] = <<>> \/ is_digit_part(parts[2])
                 /\ parts[1] # <<>> \/ parts[2] # <<>>
           /\ HasExponent(u) =>
                is_digit_part(IF x # <<>> /\ x[1] \in {"-", "+"} THEN Tail(x)
                              ELSE x)

\* A float is a double, kept in the one form that names it: Zero (0.0
\* and -0.0 are equal); Infinity; NotANumber; the decimal number of at
\* most 15 significant digits that rounds to it, when the double is normal
\* and there is such a number: the digits d1..dk (d1 and dk not 0) and the
\* power of ten e of d1..dk * 10^e; and otherwise its binary number: the
\* bits b1..bk (b1 and bk are 1) and the power of two e of b1..bk * 2^e.
\* Two decimal numbers of at most 15 significant digits never round to the
\* same normal double, so that equal doubles have equal forms.
Finite(neg, digits, exp) ==
    [kind |-> "finite", neg |-> neg, digits |-> digits, exp |-> exp]

Binary(neg, bits, exp) ==
    [kind |-> "binary", neg |-> neg, digits |-> bits, exp |-> exp]

Zero == Finite(FALSE, <<>>, 0)

Infinity(neg) == [kind |-> "inf", neg |-> neg, digits |-> <<>>, exp |-> 0]

NotANumber == [kind |-> "nan", neg |-> FALSE, digits |-> <<>>, exp |-> 0]

\* a == b on two floats: nan equals nothing, itself included
float_eq(a, b) == a.kind # "nan" /\ b.kind # "nan" /\ a = b

\* d without the zeros it starts with, and the number of zeros it ends with
drop_leading_zeros(d) ==
    LET n == Cardinality({i \in 1..Len(d) : \A j \in 1..i : d[j] = 0})
    IN  SubSeq(d, n + 1, Len(d))

trailing_zeros(d) ==
    Cardinality({i \in 1..Len(d) : \A j \in i..Len(d) : d[j] = 0})

\* the digits of a text as numbers
digit_values(t) == [i \in 1..Len(t) |-> DigitVal(t[i])]

\* the decimal number of the digits d (any zeros at the ends) times 10^e
normalized(neg, d, e) ==
    LET lead == drop_leading_zeros(d)
        tz == trailing_zeros(lead)
    IN  IF lead = <<>> THEN Zero
        ELSE Finite(neg, SubSeq(lead, 1, Len(lead) - tz), e + tz)

\* d1..dk >= t1..tn digit by digit, the shorter one continued with zeros
digits_ge(d, t) ==
    LET n == IF Len(d) > Len(t) THEN Len(d) ELSE Len(t)
        at(s, i) == IF i <= Len(s) THEN s[i] ELSE 0
    IN  \A i \in 1..n :
          (\A j \in 1..(i - 1) : at(d, j) = at(t, j)) => at(d, i) >= at(t, i)

\* Arithmetic on a number written as its decimal digits
zeros(n) == [i \in 1..n |-> 0]

is_zero(d) == \A i \in 1..Len(d) : d[i] = 0

\* the whole number d1..dk halved (d1..dk div 2, on k digits)
half(d) ==
    LET h == [i \in 1..Len(d) |->
                ((IF i > 1 THEN 10 * (d[i - 1] % 2) ELSE 0) + d[i]) \div 2]
    IN  SubSeq(h, 1, Len(d))

\* the fraction 0.d1..dk doubled, without its carry into the units
twice(d) ==
    LET t == [i \in 1..Len(d) |->
                (2 * d[i] + (IF i < Len(d) /\ d[i + 1] >= 5 THEN 1 ELSE 0)) % 10]
    IN  SubSeq(t, 1, Len(d))

\* d1..dk + 1 in the given base
RECURSIVE increment(_, _)
increment(d, base) ==
    IF d = <<>> THEN <<1>>
    ELSE IF d[Len(d)] < base - 1
    THEN SubSeq(d, 1, Len(d) - 1) \o <<d[Len(d)] + 1>>
    ELSE increment(SubSeq(d, 1, Len(d) - 1), base) \o <<0>>

\* the last n bits of the whole number d1..dk, and d1..dk div 2^n; the n
\* halvings are done half and half, which keeps the nesting low
RECURSIVE low_bits(_, _)
low_bits(d, n) ==
    IF n = 1 THEN [bits |-> <<d[Len(d)] % 2>>, rest |-> half(d)]
    ELSE LET lo == low_bits(d, n \div 2)
             hi == low_bits(lo.rest, n - n \div 2)
         IN  IF is_zero(lo.rest)
             THEN [bits |-> zeros(n - n \div 2) \o lo.bits, rest |-> lo.rest]
             ELSE [bits |-> hi.bits \o lo.bits, rest |-> hi.rest]

\* the bits of the whole number d1..dk, the first one 1 (k digits make
\* less than 4k bits)
integer_bits(d) ==
    IF d = <<>> THEN <<>> ELSE drop_leading_zeros(low_bits(d, 4 * Len(d)).bits)

\* the bits of a double's significand and the one after them
GuardedBits == 54
\* the bits a double has after the binary point, and the one after them
GuardedPlaces == 1075
\* the significand, and the exponents of the largest and of the least
\* normal double
SignificandBits == 53
MaxExponent == 1023
MinExponent == 0 - 1022

\* The binary expansion of a fraction, as the bits from the first 1 on,
\* the fraction left 0.f1..fk and the places done after the point: n more
\* places, up to GuardedBits bits and GuardedPlaces places, done half and
\* half like low_bits
RECURSIVE fraction_bits(_, _)
fraction_bits(st, n) ==
    IF \/ Len(st.bits) >= GuardedBits
       \/ st.pos = GuardedPlaces
       \/ is_zero(st.rest)
    THEN st
    ELSE IF n = 1
    THEN LET b == IF st.rest[1] >= 5 THEN 1 ELSE 0
         IN  [bits |-> IF st.bits = <<>> /\ b = 0 THEN <<>>
                       ELSE st.bits \o <<b>>,
              rest |-> twice(st.rest),
              pos |-> st.pos + 1]
    ELSE fraction_bits(fraction_bits(st, n \div 2), n - n \div 2)

\* the double nearest to b1..bn * 2^w + r, where 0 <= r < 2^w and sticky
\* tells r > 0: round-half-even to SignificandBits bits and to a multiple
\* of 2^-1074; inf from 2^1024 on
round_half_even(b, w, sticky) ==
    LET below == IF w < 0 - (GuardedPlaces - 1) THEN 0 - (GuardedPlaces - 1) - w
                 ELSE 0
        keep == IF Len(b) - below < SignificandBits THEN Len(b) - below
                ELSE SignificandBits
        guard == keep < Len(b) /\ b[keep + 1] = 1
        more == sticky \/ \E i \in (keep + 2)..Len(b) : b[i] = 1
        odd == keep > 0 /\ b[keep] = 1
        m == IF guard /\ (more \/ odd) THEN increment(SubSeq(b, 1, keep), 2)
             ELSE SubSeq(b, 1, keep)
        tz == trailing_zeros(m)
        q == w + Len(b) - keep
    IN  IF b = <<>> \/ m = <<>> THEN Zero
        ELSE IF q + Len(m) - 1 > MaxExponent THEN Infinity(FALSE)
        ELSE Binary(FALSE, SubSeq(m, 1, Len(m) - tz), q + tz)

\* the double nearest to d1..dk * 10^x, for d1 not 0
nearest_double(d, x) ==
    LET k == 0 - x
        whole == IF x >= 0 THEN d \o zeros(x) ELSE SubSeq(d, 1, Len(d) - k)
        f == IF x >= 0 THEN <<>>
             ELSE IF Len(d) > k THEN SubSeq(d, Len(d) - k + 1, Len(d))
             ELSE zeros(k - Len(d)) \o d
        ib == integer_bits(whole)
        fb == fraction_bits([bits |-> ib, rest |-> f, pos |-> 0],
                            GuardedPlaces)
    IN  IF Len(ib) > GuardedBits
        THEN round_half_even(SubSeq(ib, 1, GuardedBits), Len(ib) - GuardedBits,
                             ~is_zero(SubSeq(ib, GuardedBits + 1, Len(ib)))
                               \/ ~is_zero(f))
        ELSE round_half_even(fb.bits, 0 - fb.pos, ~is_zero(fb.rest))

\* the most significant digits a decimal number can have for no other such
\* number to round to the same normal double (DBL_DIG)
DecimalDigits == 15

\* d1..dk * 10^x rounded to DecimalDigits significant digits
rounded_decimal(d, x) ==
    IF Len(d) <= DecimalDigits THEN Finite(FALSE, d, x)
    ELSE normalized(FALSE,
                    IF d[DecimalDigits + 1] >= 5
                    THEN increment(SubSeq(d, 1, DecimalDigits), 10)
                    ELSE SubSeq(d, 1, DecimalDigits),
                    x + Len(d) - DecimalDigits)

\* the float of the decimal number d1..dk * 10^x, d1 and dk not 0.  From
\* 1e-307 to 1e308 a number of at most DecimalDigits digits names its
\* double; a number from 1e309 on rounds to inf and one under 1e-324 to 0.0
double(neg, d, x) ==
    LET mag10 == Len(d) + x
        b == nearest_double(d, x)
        c == rounded_decimal(d, x)
    IN  IF Len(d) <= DecimalDigits /\ mag10 >= 0 - 306 /\ mag10 <= 308
        THEN Finite(neg, d, x)
        ELSE IF mag10 > 309 THEN Infinity(neg)
        ELSE IF mag10 <= 0 - 324 THEN Zero
        ELSE IF b.kind = "inf" THEN Infinity(neg)
        ELSE IF b.kind # "binary" THEN Zero
        ELSE IF /\ b.exp + Len(b.digits) - 1 >= MinExponent
                /\ nearest_double(c.digits, c.exp) = b
        THEN Finite(neg, c.digits, c.exp)
        ELSE Binary(neg, b.digits, b.exp)

\* float(text), for a text float() accepts.  An exponent of more than 8
\* digits is beyond the double's range whatever the digits before it.
float(s) ==
    LET u == Unsigned(s)
        m == Mantissa(u)
        x == Exponent(u)
        parts == split(m, ".")
        frac == IF Len(parts) = 2 THEN digits_of(parts[2]) ELSE <<>>
        d == digit_values(digits_of(parts[1]) \o frac)
        xd == drop_leading_zeros(digit_values(digits_of(x)))
        xneg == x # <<>> /\ x[1] = "-"
        xmag == IF Len(xd) > 8 THEN 0
                ELSE DigitsVal([i \in 1..Len(xd) |-> DigitChars[xd[i] + 1]])
        xval == IF xneg THEN 0 - xmag ELSE xmag
        t == normalized(IsNegative(s), d, xval - Len(frac))
    IN  IF lower(u) = <<"n", "a", "n">> THEN NotANumber
        ELSE IF lower(u) \in {<<"i", "n", "f">>,
                              <<"i", "n", "f", "i", "n", "i", "t", "y">>}
        THEN Infinity(IsNegative(s))
        ELSE IF drop_leading_zeros(d) = <<>> THEN Zero
        ELSE IF Len(xd) > 8
        THEN (IF xneg THEN Zero ELSE Infinity(IsNegative(s)))
        ELSE double(t.neg, t.digits, t.exp)

RECURSIVE NatDigitValues(_)
NatDigitValues(n) ==
    IF n < 10 THEN <<n>> ELSE NatDigitValues(n \div 10) \o <<n % 10>>

\* the float of mv millivolts
V(mv) ==
    normalized(mv < 0, NatDigitValues(IF mv < 0 THEN 0 - mv ELSE mv), 0 - 3)

RECURSIVE Pow10(_)
Pow10(n) == IF n = 0 THEN 1 ELSE 10 * Pow10(n - 1)

RECURSIVE DigitValuesVal(_)
DigitValuesVal(d) ==
    IF d = <<>> THEN 0
    ELSE 10 * DigitValuesVal(SubSeq(d, 1, Len(d) - 1)) + d[Len(d)]

\* a finite float that is a whole number of millivolts, in millivolts
millivolts(v) ==
    LET a == DigitValuesVal(v.digits) * Pow10(v.exp + 3)
    IN  IF v.neg THEN 0 - a ELSE a

\* a finite float as its binary number
to_binary(v) ==
    IF v.kind = "finite" /\ v.digits # <<>>
    THEN [nearest_double(v.digits, v.exp) EXCEPT !.neg = v.neg]
    ELSE v

\* a < b on the magnitudes of two finite floats written in the same base
magnitude_lt(a, b) ==
    LET ma == Len(a.digits) + a.exp
        mb == Len(b.digits) + b.exp
    IN  IF b.digits = <<>> THEN FALSE
        ELSE IF a.digits = <<>> THEN TRUE
        ELSE IF ma # mb THEN ma < mb
        ELSE a.digits # b.digits /\ digits_ge(b.digits, a.digits)

\* a <= b on two floats
float_le(a, b) ==
    LET mixed == "binary" \in {a.kind, b.kind}
        x == IF mixed THEN to_binary(a) ELSE a
        y == IF mixed THEN to_binary(b) ELSE b
    IN  IF a.kind = "nan" \/ b.kind = "nan" THEN FALSE
        ELSE IF a = b THEN TRUE
        ELSE IF a.neg # b.neg THEN a.neg
        ELSE IF a.kind = "inf" THEN a.neg
        ELSE IF b.kind = "inf" THEN ~b.neg
        ELSE IF a.neg THEN magnitude_lt(y, x) ELSE magnitude_lt(x, y)

\* the text int() accepts, and its value
is_int_text(s) == is_digit_part(Unsigned(s))

int(s) ==
    LET v == DigitsVal(digits_of(Unsigned(s)))
    IN  IF IsNegative(s) THEN 0 - v ELSE v

\* ------------------------------------------------------------------------
\* Transport Framer: Controller._send
\* ------------------------------------------------------------------------
\* port.read_until(b'>'): the bytes up to and including the first prompt, or
\* everything that arrived when the timeout ends the read without one
read_until(buf, ch) ==
    IF \E i \in 1..Len(buf) : buf[i] = ch
    THEN SubSeq(buf, 1, CHOOSE i \in 1..Len(buf) :
                            buf[i] = ch /\ \A j \in 1..(i - 1) : buf[j] # ch)
    ELSE buf

\* _send without the echo assertion of line 46
_send_no_echo_check(cmd, buf, remove_brackets) ==
    LET read == read_until(buf, PROMPT)
        rest == SubSeq(buf, Len(read) + 1, Len(buf))
        response == rstrip(read, PROMPT)
        parts == split(response, LF)
        lines == SelectSeq(split(parts[2], CR), LAMBDA r : r # <<>>)
    IN  IF Len(rest) # 0
        THEN [raised |-> "AssertionError:45", responses |-> <<>>, inbuf |-> rest]
        ELSE IF Len(parts) < 2
        THEN [raised |-> "IndexError:47", responses |-> <<>>, inbuf |-> rest]
        ELSE [raised |-> NoError,
              responses |-> [i \in 1..Len(lines) |->
                               IF remove_brackets THEN strip_brackets(lines[i])
                               ELSE lines[i]],
              inbuf |-> rest]

\* _send without the assertion of line 45
_send_no_inWaiting_check(cmd, buf, remove_brackets) ==
    LET read == read_until(buf, PROMPT)
        rest == SubSeq(buf, Len(read) + 1, Len(buf))
        response == rstrip(read, PROMPT)
        parts == split(response, LF)
        lines == SelectSeq(split(parts[2], CR), LAMBDA r : r # <<>>)
    IN  IF parts[1] # cmd
        THEN [raised |-> "AssertionError:46", responses |-> <<>>, inbuf |-> rest]
        ELSE IF Len(parts) < 2
        THEN [raised |-> "IndexError:47", responses |-> <<>>, inbuf |-> rest]
        ELSE [raised |-> NoError,
              responses |-> [i \in 1..Len(lines) |->
                               IF remove_brackets THEN strip_brackets(lines[i])
                               ELSE lines[i]],
              inbuf |-> rest]

\* _send(cmd) on a port whose input buffer holds buf once the device has
\* answered: the exception raised (NoError when it returns), the response
\* lines returned, and what is left in the input buffer
_send(cmd, buf, remove_brackets) ==
    LET read == read_until(buf, PROMPT)
        rest == SubSeq(buf, Len(read) + 1, Len(buf))
        response == rstrip(read, PROMPT)
        parts == split(response, LF)
        lines == SelectSeq(split(parts[2], CR), LAMBDA r : r # <<>>)
    IN  IF Len(rest) # 0
        THEN [raised |-> "AssertionError:45", responses |-> <<>>, inbuf |-> rest]
        ELSE IF parts[1] # cmd
        THEN [raised |-> "AssertionError:46", responses |-> <<>>, inbuf |-> rest]
        ELSE IF Len(parts) < 2
        THEN [raised |-> "IndexError:47", responses |-> <<>>, inbuf |-> rest]
        ELSE [raised |-> NoError,
              responses |-> [i \in 1..Len(lines) |->
                               IF remove_brackets THEN strip_brackets(lines[i])
                               ELSE lines[i]],
              inbuf |-> rest]

\* whether the first line of what _send reads from buf is the command written
echoed(cmd, buf) ==
    IF split(rstrip(read_until(buf, PROMPT), PROMPT), LF)[1] = cmd
    THEN "match" ELSE "differs"

\* float(self._send('xvoltage?', remove_brackets=True)[0]) of get_voltage:
\* the exception raised (NoError when it returns) and the voltage read
read_voltage(buf) ==
    LET r == _send(<<"xvoltage?">>, buf, TRUE)
    IN  IF r.raised # NoError
        THEN [raised |-> r.raised, voltage |-> None, inbuf |-> r.inbuf]
        ELSE IF Len(r.responses) = 0
        THEN [raised |-> "IndexError:78", voltage |-> None, inbuf |-> r.inbuf]
        ELSE IF ~is_float_text(r.responses[1])
        THEN [raised |-> "ValueError:78", voltage |-> None, inbuf |-> r.inbuf]
        ELSE [raised |-> NoError, voltage |-> <<float(r.responses[1])>>,
              inbuf |-> r.inbuf]

\* ------------------------------------------------------------------------
\* The device on the other end of the serial link
\* ------------------------------------------------------------------------
ACK == <<"All settings restored to default values.">>
MODEL == <<"Model MDT694B Piezo Control Module">>
FIRMWARE == <<"Firmware Version: 1.10">>
\* a tuple of limits that lets 200 through
voltage_limits_with_200 == {75, 100, 150, 200}

voltage_limits == {75, 100, 150}

RECURSIVE join_lines(_)
join_lines(lines) ==
    IF lines = <<>> THEN <<>>
    ELSE Head(lines) \o <<CR>> \o join_lines(Tail(lines))

\* what the device writes back for a command: the echo, a line feed, the
\* payload lines each ended by a carriage return, the prompt.  A fault is a
\* garbled echo (its first token lost) or a byte following the prompt.
Faults == {"none", "echo", "residual"}

device_answer(cmd, lines, fault) ==
    CASE fault = "none" -> cmd \o <<LF>> \o join_lines(lines) \o <<PROMPT>>
      [] fault = "echo" -> Tail(cmd) \o <<LF>> \o join_lines(lines) \o <<PROMPT>>
      [] fault = "residual" ->
             cmd \o <<LF>> \o join_lines(lines) \o <<PROMPT>> \o <<LF>>

RestoreLines == {<<ACK>>, <<<<"CMD_NOT_DEFINED">>>>}

IdLines ==
    {<<MODEL, FIRMWARE>>,
     <<<<"Model MDT693B Piezo Control Module">>, FIRMWARE>>,
     <<MODEL, <<"Firmware Version: 1.09">>>>,
     <<MODEL>>}

VlimitLines ==
    {<<<<"[", "7", "5", "]">>>>, <<<<"[", "1", "5", "0", "]">>>>,
     <<<<"[", "2", "0", "0", "]">>>>}

\* the voltages a device that does not simply report its setpoint may report
ReadingTexts ==
    {<<"0", ".", "0", "0">>, <<"1", "2", ".", "3">>,
     <<"-", "0", ".", "0", "5">>}

\* ------------------------------------------------------------------------
\* State
\* ------------------------------------------------------------------------
VARIABLES
    pc,              \* where the caller is: before the constructor ("new"),
                     \* inside it, between calls ("ready"), inside a call
    port,            \* the serial port: "unopened", "open", "closed"
    inbuf,           \* the port's input buffer: bytes received and not read
    id,              \* self.id
    voltage_limit,   \* self.voltage_limit
    voltage,         \* self.voltage
    _pending_cmd,    \* self._pending_cmd
    initial_voltage, \* the local of _finish_set_voltage
    call,            \* the public call running or last returned, with arguments
    stage,           \* which call of _finish_set_voltage is running
    raised,          \* the exception the last call raised
    ret,             \* the value the last call returned
    reflects,        \* the device reports the voltage it was last commanded
    devTarget,       \* the voltage a device that reflects was last commanded
    log,             \* the commands the constructor wrote, in order
    writes,          \* commands written during the call (counted to MaxCount)
    settles,         \* settle detections completed during the call
    polls,           \* poll cycles completed in this run of the settle loop
    unequal,         \* of which cycles whose two readings differed
    sleeps,          \* waits of polling_wait_s in this run of the settle loop
    echo,            \* whether the first line of the last response read in
                     \* the call was the command written: "match", "differs",
                     \* or "none" read yet
    unsettled,       \* set commands written since the last settle detection:
                     \* none (0), one (1), more than one (2)
    prev             \* the call before `call`, if a set_voltage that returned

vars == <<pc, port, inbuf, id, voltage_limit, voltage, _pending_cmd,
          initial_voltage, call, stage, raised, ret, reflects, devTarget,
          log, writes, settles, polls, unequal, sleeps, echo, unsettled,
          prev>>

session == <<id, voltage_limit, voltage, _pending_cmd, initial_voltage>>
history == <<writes, settles, polls, unequal, sleeps, unsettled, prev>>

NoCall ==
    [op |-> "none", voltage |-> 0, minus |-> FALSE, block |-> FALSE]

Count(n) == IF n < MaxCount THEN n + 1 ELSE n

\* what is remembered of the call that `call` replaces: a set_voltage that
\* returned, with its arguments and its settle detections; of any other
\* call, nothing
Other ==
    [op |-> "other", voltage |-> 0, minus |-> FALSE, block |-> FALSE,
     settles |-> 0]

Summary ==
    IF call.op = "set_voltage" /\ raised = NoError
    THEN [op |-> call.op, voltage |-> call.voltage, minus |-> call.minus,
          block |-> call.block, settles |-> settles]
    ELSE Other

Init ==
    /\ pc = "new"
    /\ port = "unopened"
    /\ inbuf = <<>>
    /\ id = None
    /\ voltage_limit = None
    /\ voltage = None
    /\ _pending_cmd = None
    /\ initial_voltage = None
    /\ call = NoCall
    /\ stage = "none"
    /\ raised = NoError
    /\ ret = None
    /\ reflects \in BOOLEAN
    /\ devTarget = 0
    /\ log = <<>>
    /\ writes = 0
    /\ settles = 0
    /\ polls = 0
    /\ unequal = 0
    /\ sleeps = 0
    /\ echo = "none"
    /\ unsettled = 0
    /\ prev = Other

\* the payload the device answers 'xvoltage?' with
VoltageLines ==
    IF reflects THEN {<<<<"[">> \o format_2f(FALSE, devTarget) \o <<"]">>>>}
    ELSE {<<<<"[">> \o t \o <<"]">>>> : t \in ReadingTexts}

\* ------------------------------------------------------------------------
\* Controller.__init__
\* ------------------------------------------------------------------------
\* serial.Serial(...): the port opens, or IOError is raised
open_port ==
    /\ pc = "new"
    /\ \/ port' = "open" /\ pc' = "restore" /\ UNCHANGED raised
       \/ port' = port /\ pc' = "failed" /\ raised' = "IOError:20"
    /\ UNCHANGED <<inbuf, session, call, stage, ret, reflects, devTarget, log,
                   echo, history>>

\* assert self._send('restore')[0] == 'All settings restored ...'
init_restore ==
    /\ pc = "restore"
    /\ \E lines \in RestoreLines, fault \in Faults :
         LET cmd == <<"restore">>
             r == _send(cmd, inbuf \o device_answer(cmd, lines, fault), FALSE)
             exc == IF r.raised # NoError THEN r.raised
                    ELSE IF Len(r.responses) = 0 THEN "IndexError:22"
                    ELSE IF r.responses[1] # ACK THEN "AssertionError:22"
                    ELSE NoError
         IN  /\ log' = Append(log, cmd)
             /\ inbuf' = r.inbuf
             /\ echo' = echoed(cmd, inbuf \o device_answer(cmd, lines, fault))
             /\ devTarget' = 0
             /\ raised' = exc
             /\ pc' = IF exc = NoError THEN "id" ELSE "failed"
    /\ UNCHANGED <<port, session, call, stage, ret, reflects, history>>

\* init_id without the assert of line 26
init_id_no_firmware_check ==
    /\ pc = "id"
    /\ \E lines \in IdLines, fault \in Faults :
         LET cmd == <<"id?">>
             r == _send(cmd, inbuf \o device_answer(cmd, lines, fault), FALSE)
             exc == IF r.raised # NoError THEN r.raised
                    ELSE IF Len(r.responses) = 0 THEN "IndexError:25"
                    ELSE IF r.responses[1] # MODEL THEN "AssertionError:25"
                    ELSE NoError
         IN  /\ log' = Append(log, cmd)
             /\ inbuf' = r.inbuf
             /\ echo' = echoed(cmd, inbuf \o device_answer(cmd, lines, fault))
             /\ id' = IF r.raised = NoError THEN r.responses ELSE id
             /\ raised' = exc
             /\ pc' = IF exc = NoError THEN "vlimit" ELSE "failed"
    /\ UNCHANGED <<port, voltage_limit, voltage, _pending_cmd, initial_voltage,
                   call, stage, ret, reflects, devTarget, history>>

\* self.id = self._send('id?') and the two asserts on it
init_id ==
    /\ pc = "id"
    /\ \E lines \in IdLines, fault \in Faults :
         LET cmd == <<"id?">>
             r == _send(cmd, inbuf \o device_answer(cmd, lines, fault), FALSE)
             exc == IF r.raised # NoError THEN r.raised
                    ELSE IF Len(r.responses) = 0 THEN "IndexError:25"
                    ELSE IF r.responses[1] # MODEL THEN "AssertionError:25"
                    ELSE IF Len(r.responses) < 2 THEN "IndexError:26"
                    ELSE IF r.responses[2] # FIRMWARE THEN "AssertionError:26"
                    ELSE NoError
         IN  /\ log' = Append(log, cmd)
             /\ inbuf' = r.inbuf
             /\ echo' = echoed(cmd, inbuf \o device_answer(cmd, lines, fault))
             /\ id' = IF r.raised = NoError THEN r.responses ELSE id
             /\ raised' = exc
             /\ pc' = IF exc = NoError THEN "vlimit" ELSE "failed"
    /\ UNCHANGED <<port, voltage_limit, voltage, _pending_cmd, initial_voltage,
                   call, stage, ret, reflects, devTarget, history>>

\* self.voltage_limit = int(self._send('vlimit?', ...)[0]) and the assert
init_vlimit ==
    /\ pc = "vlimit"
    /\ \E lines \in VlimitLines, fault \in Faults :
         LET cmd == <<"vlimit?">>
             r == _send(cmd, inbuf \o device_answer(cmd, lines, fault), TRUE)
             exc == IF r.raised # NoError THEN r.raised
                    ELSE IF Len(r.responses) = 0 THEN "IndexError:29"
                    ELSE IF ~is_int_text(r.responses[1]) THEN "ValueError:29"
                    ELSE IF int(r.responses[1]) \notin voltage_limits
                    THEN "AssertionError:30"
                    ELSE NoError
         IN  /\ log' = Append(log, cmd)
             /\ inbuf' = r.inbuf
             /\ echo' = echoed(cmd, inbuf \o device_answer(cmd, lines, fault))
             /\ voltage_limit' = IF exc \in {NoError, "AssertionError:30"}
                                 THEN <<int(r.responses[1])>>
                                 ELSE voltage_limit
             /\ raised' = exc
             /\ pc' = IF exc = NoError THEN "xvoltage" ELSE "failed"
    /\ UNCHANGED <<port, id, voltage, _pending_cmd, initial_voltage, call,
                   stage, ret, reflects, devTarget, history>>

\* self.get_voltage(verbose=False); self._pending_cmd = None
init_voltage ==
    /\ pc = "xvoltage"
    /\ \E lines \in VoltageLines, fault \in Faults :
         LET cmd == <<"xvoltage?">>
             r == read_voltage(inbuf \o device_answer(cmd, lines, fault))
         IN  /\ log' = Append(log, cmd)
             /\ inbuf' = r.inbuf
             /\ echo' = echoed(cmd, inbuf \o device_answer(cmd, lines, fault))
             /\ voltage' = IF r.raised = NoError THEN r.voltage ELSE voltage
             /\ raised' = r.raised
             /\ pc' = IF r.raised = NoError THEN "ready" ELSE "failed"
    /\ _pending_cmd' = None
    /\ UNCHANGED <<port, id, voltage_limit, initial_voltage, call, stage, ret,
                   reflects, devTarget, history>>

\* ------------------------------------------------------------------------
\* The public calls on a constructed Controller
\* ------------------------------------------------------------------------
\* the voltages a caller asks for, in millivolts: below zero, zero (with
\* SignBits, 0.0 and -0.0), a value halfway between two hundredths, a value
\* on the two-decimal grid and one off it, the limit, and one just over it
Targets ==
    {-10, 0, 2675, 12340, 12344, 1000 * voltage_limit[1],
     1000 * voltage_limit[1] + 4}

\* the sign bit of the float of value v: 0 is the float 0.0 or -0.0
SignBits(v) ==
    IF v < 0 THEN {TRUE} ELSE IF v = 0 THEN {FALSE, TRUE} ELSE {FALSE}

\* get_voltage() called by the user
get_voltage ==
    /\ pc = "ready"
    /\ \E lines \in VoltageLines, fault \in Faults :
         LET cmd == <<"xvoltage?">>
             r == read_voltage(inbuf \o device_answer(cmd, lines, fault))
         IN  /\ inbuf' = r.inbuf
             /\ echo' = echoed(cmd, inbuf \o device_answer(cmd, lines, fault))
             /\ voltage' = IF r.raised = NoError THEN r.voltage ELSE voltage
             /\ raised' = r.raised
             /\ ret' = r.voltage
    /\ call' = [op |-> "get_voltage", voltage |-> 0, minus |-> FALSE, block |-> FALSE]
    /\ prev' = Summary
    /\ writes' = 1
    /\ settles' = 0
    /\ polls' = 0
    /\ unequal' = 0
    /\ sleeps' = 0
    /\ UNCHANGED <<pc, port, id, voltage_limit, _pending_cmd, initial_voltage,
                   stage, reflects, devTarget, log, unsettled>>

\* set_voltage without lines 84-85
set_voltage_no_drain ==
    /\ pc = "ready"
    /\ \E v \in Targets, block \in BOOLEAN :
         \E minus \in SignBits(v) :
           call' = [op |-> "set_voltage", voltage |-> v, minus |-> minus,
                    block |-> block]
    /\ prev' = Summary
    /\ writes' = 0
    /\ settles' = 0
    /\ raised' = NoError
    /\ ret' = None
    /\ polls' = 0
    /\ unequal' = 0
    /\ sleeps' = 0
    /\ pc' = "set_body"
    /\ UNCHANGED stage
    /\ echo' = "none"
    /\ UNCHANGED <<port, inbuf, session, reflects, devTarget, log, unsettled>>

\* set_voltage(voltage, block) is entered: lines 84-85
set_voltage ==
    /\ pc = "ready"
    /\ \E v \in Targets, block \in BOOLEAN :
         \E minus \in SignBits(v) :
           call' = [op |-> "set_voltage", voltage |-> v, minus |-> minus,
                    block |-> block]
    /\ prev' = Summary
    /\ writes' = 0
    /\ settles' = 0
    /\ raised' = NoError
    /\ ret' = None
    /\ polls' = 0
    /\ unequal' = 0
    /\ sleeps' = 0
    /\ IF _pending_cmd # None
       THEN pc' = "poll_initial" /\ stage' = "drain"
       ELSE pc' = "set_body" /\ UNCHANGED stage
    /\ echo' = "none"
    /\ UNCHANGED <<port, inbuf, session, reflects, devTarget, log, unsettled>>

\* set_voltage_send assigning self._pending_cmd before the call of _send
set_voltage_send_mark_first ==
    /\ pc = "set_body"
    /\ LET target_voltage == call.voltage
           cmd == <<"xvoltage=">> \o format_2f(call.minus, target_voltage)
       IN  IF ~(0 <= target_voltage /\ target_voltage <= 1000 * voltage_limit[1])
           THEN /\ raised' = "AssertionError:89"
                /\ pc' = "ready"
                /\ UNCHANGED <<inbuf, _pending_cmd, devTarget, writes, unsettled,
                               stage, polls, unequal, sleeps, echo>>
           ELSE \E fault \in Faults :
                  LET r == _send(cmd, inbuf \o device_answer(cmd, <<>>, fault),
                                 FALSE)
                  IN  /\ inbuf' = r.inbuf
                      /\ echo' = echoed(cmd, inbuf
                                              \o device_answer(cmd, <<>>, fault))
                      /\ devTarget' = IF reflects THEN millivolts(float(Tail(cmd)))
                                      ELSE devTarget
                      /\ writes' = Count(writes)
                      /\ unsettled' = IF unsettled = 0 THEN 1 ELSE 2
                      /\ raised' = r.raised
                      /\ _pending_cmd' = cmd
                      /\ IF r.raised = NoError /\ call.block
                         THEN /\ pc' = "poll_initial"
                              /\ stage' = "block"
                              /\ polls' = 0
                              /\ unequal' = 0
                              /\ sleeps' = 0
                         ELSE /\ pc' = "ready"
                              /\ UNCHANGED <<stage, polls, unequal, sleeps>>
    /\ UNCHANGED <<port, id, voltage_limit, voltage, initial_voltage, call, ret,
                   reflects, log, settles, prev>>

\* set_voltage, lines 86-96: the range assertion, the set command, the
\* pending marker, and the blocking call of _finish_set_voltage
set_voltage_send ==
    /\ pc = "set_body"
    /\ LET target_voltage == call.voltage
           cmd == <<"xvoltage=">> \o format_2f(call.minus, target_voltage)
       IN  IF ~(0 <= target_voltage /\ target_voltage <= 1000 * voltage_limit[1])
           THEN /\ raised' = "AssertionError:89"
                /\ pc' = "ready"
                /\ UNCHANGED <<inbuf, _pending_cmd, devTarget, writes, unsettled,
                               stage, polls, unequal, sleeps, echo>>
           ELSE \E fault \in Faults :
                  LET r == _send(cmd, inbuf \o device_answer(cmd, <<>>, fault),
                                 FALSE)
                  IN  /\ inbuf' = r.inbuf
                      /\ echo' = echoed(cmd, inbuf
                                              \o device_answer(cmd, <<>>, fault))
                      /\ devTarget' = IF reflects THEN millivolts(float(Tail(cmd)))
                                      ELSE devTarget
                      /\ writes' = Count(writes)
                      /\ unsettled' = IF unsettled = 0 THEN 1 ELSE 2
                      /\ raised' = r.raised
                      /\ _pending_cmd' = IF r.raised = NoError THEN cmd
                                         ELSE _pending_cmd
                      /\ IF r.raised = NoError /\ call.block
                         THEN /\ pc' = "poll_initial"
                              /\ stage' = "block"
                              /\ polls' = 0
                              /\ unequal' = 0
                              /\ sleeps' = 0
                         ELSE /\ pc' = "ready"
                              /\ UNCHANGED <<stage, polls, unequal, sleeps>>
    /\ UNCHANGED <<port, id, voltage_limit, voltage, initial_voltage, call, ret,
                   reflects, log, settles, prev>>

\* _finish_set_voltage without lines 61-62
_finish_set_voltage_no_guard ==
    /\ pc = "ready"
    /\ call' = [op |-> "_finish_set_voltage", voltage |-> 0, minus |-> FALSE, block |-> FALSE]
    /\ prev' = Summary
    /\ writes' = 0
    /\ settles' = 0
    /\ raised' = NoError
    /\ ret' = None
    /\ polls' = 0
    /\ unequal' = 0
    /\ sleeps' = 0
    /\ pc' = "poll_initial"
    /\ stage' = "direct"
    /\ echo' = "none"
    /\ UNCHANGED <<port, inbuf, session, reflects, devTarget, log, unsettled>>

\* _finish_set_voltage() called by the user: lines 60-62
_finish_set_voltage ==
    /\ pc = "ready"
    /\ call' = [op |-> "_finish_set_voltage", voltage |-> 0, minus |-> FALSE, block |-> FALSE]
    /\ prev' = Summary
    /\ writes' = 0
    /\ settles' = 0
    /\ raised' = NoError
    /\ ret' = None
    /\ polls' = 0
    /\ unequal' = 0
    /\ sleeps' = 0
    /\ IF _pending_cmd = None
       THEN UNCHANGED <<pc, stage>>
       ELSE pc' = "poll_initial" /\ stage' = "direct"
    /\ echo' = "none"
    /\ UNCHANGED <<port, inbuf, session, reflects, devTarget, log, unsettled>>

\* poll_initial with self._pending_cmd cleared when get_voltage raises
poll_initial_clear_on_error ==
    /\ pc = "poll_initial"
    /\ \E lines \in VoltageLines, fault \in Faults :
         LET cmd == <<"xvoltage?">>
             r == read_voltage(inbuf \o device_answer(cmd, lines, fault))
         IN  /\ inbuf' = r.inbuf
             /\ echo' = echoed(cmd, inbuf \o device_answer(cmd, lines, fault))
             /\ raised' = r.raised
             /\ IF r.raised = NoError
                THEN /\ voltage' = r.voltage
                     /\ initial_voltage' = r.voltage
                     /\ pc' = "sleep"
                     /\ UNCHANGED <<stage, _pending_cmd>>
                ELSE /\ pc' = "ready"
                     /\ stage' = "none"
                     /\ initial_voltage' = None
                     /\ _pending_cmd' = None
                     /\ UNCHANGED voltage
    /\ writes' = Count(writes)
    /\ UNCHANGED <<port, id, voltage_limit, call, ret, reflects,
                   devTarget, log, settles, polls, unequal, sleeps, unsettled,
                   prev>>

\* line 65: initial_voltage = self.get_voltage(verbose=False)
poll_initial ==
    /\ pc = "poll_initial"
    /\ \E lines \in VoltageLines, fault \in Faults :
         LET cmd == <<"xvoltage?">>
             r == read_voltage(inbuf \o device_answer(cmd, lines, fault))
         IN  /\ inbuf' = r.inbuf
             /\ echo' = echoed(cmd, inbuf \o device_answer(cmd, lines, fault))
             /\ raised' = r.raised
             /\ IF r.raised = NoError
                THEN /\ voltage' = r.voltage
                     /\ initial_voltage' = r.voltage
                     /\ pc' = "sleep"
                     /\ UNCHANGED stage
                ELSE /\ pc' = "ready"
                     /\ stage' = "none"
                     /\ initial_voltage' = None
                     /\ UNCHANGED voltage
    /\ writes' = Count(writes)
    /\ UNCHANGED <<port, id, voltage_limit, _pending_cmd, call, ret, reflects,
                   devTarget, log, settles, polls, unequal, sleeps, unsettled,
                   prev>>

\* line 67: time.sleep(polling_wait_s)
poll_sleep ==
    /\ pc = "sleep"
    /\ pc' = "poll_final"
    /\ sleeps' = Count(sleeps)
    /\ UNCHANGED <<port, inbuf, session, call, stage, raised, ret, reflects,
                   devTarget, log, echo, writes, settles, polls, unequal,
                   unsettled, prev>>

\* poll_final comparing self.voltage, just assigned, with final_voltage
poll_final_compare_self ==
    /\ pc = "poll_final"
    /\ \E lines \in VoltageLines, fault \in Faults :
         LET cmd == <<"xvoltage?">>
             r == read_voltage(inbuf \o device_answer(cmd, lines, fault))
             final_voltage == r.voltage
         IN  /\ inbuf' = r.inbuf
             /\ echo' = echoed(cmd, inbuf \o device_answer(cmd, lines, fault))
             /\ raised' = r.raised
             /\ IF r.raised # NoError
                THEN /\ pc' = "ready"
                     /\ stage' = "none"
                     /\ initial_voltage' = None
                     /\ UNCHANGED <<voltage, _pending_cmd, settles, polls,
                                    unequal, unsettled>>
                ELSE /\ voltage' = final_voltage
                     /\ polls' = Count(polls)
                     /\ unequal' = IF ~float_eq(initial_voltage[1], final_voltage[1])
                                   THEN Count(unequal) ELSE unequal
                     /\ IF voltage' = final_voltage
                        THEN /\ _pending_cmd' = None
                             /\ pc' = IF stage = "drain" THEN "set_body"
                                      ELSE "ready"
                             /\ stage' = "none"
                             /\ initial_voltage' = None
                             /\ settles' = settles + 1
                             /\ unsettled' = 0
                        ELSE /\ pc' = "poll_initial"
                             /\ UNCHANGED <<_pending_cmd, stage, settles,
                                            unsettled, initial_voltage>>
    /\ writes' = Count(writes)
    /\ UNCHANGED <<port, id, voltage_limit, call, ret, reflects, devTarget,
                   log, sleeps, prev>>

\* poll_final returning final_voltage from _finish_set_voltage
poll_final_return_voltage ==
    /\ pc = "poll_final"
    /\ \E lines \in VoltageLines, fault \in Faults :
         LET cmd == <<"xvoltage?">>
             r == read_voltage(inbuf \o device_answer(cmd, lines, fault))
             final_voltage == r.voltage
         IN  /\ inbuf' = r.inbuf
             /\ echo' = echoed(cmd, inbuf \o device_answer(cmd, lines, fault))
             /\ raised' = r.raised
             /\ IF r.raised # NoError
                THEN /\ pc' = "ready"
                     /\ stage' = "none"
                     /\ initial_voltage' = None
                     /\ UNCHANGED <<voltage, _pending_cmd, settles, polls,
                                    unequal, unsettled, ret>>
                ELSE /\ voltage' = final_voltage
                     /\ polls' = Count(polls)
                     /\ unequal' = IF ~float_eq(initial_voltage[1], final_voltage[1])
                                   THEN Count(unequal) ELSE unequal
                     /\ IF float_eq(initial_voltage[1], final_voltage[1])
                        THEN /\ _pending_cmd' = None
                             /\ pc' = IF stage = "drain" THEN "set_body"
                                      ELSE "ready"
                             /\ ret' = IF stage = "direct" THEN final_voltage
                                       ELSE ret
                             /\ stage' = "none"
                             /\ initial_voltage' = None
                             /\ settles' = settles + 1
                             /\ unsettled' = 0
                        ELSE /\ pc' = "poll_initial"
                             /\ UNCHANGED <<_pending_cmd, stage, settles,
                                            unsettled, initial_voltage, ret>>
    /\ writes' = Count(writes)
    /\ UNCHANGED <<port, id, voltage_limit, call, reflects, devTarget,
                   log, sleeps, prev>>

\* poll_final with the comparison of line 69 inverted: the loop is left when
\* the two readings differ
poll_final_break_on_change ==
    /\ pc = "poll_final"
    /\ \E lines \in VoltageLines, fault \in Faults :
         LET cmd == <<"xvoltage?">>
             r == read_voltage(inbuf \o device_answer(cmd, lines, fault))
             final_voltage == r.voltage
         IN  /\ inbuf' = r.inbuf
             /\ echo' = echoed(cmd, inbuf \o device_answer(cmd, lines, fault))
             /\ raised' = r.raised
             /\ IF r.raised # NoError
                THEN /\ pc' = "ready"
                     /\ stage' = "none"
                     /\ initial_voltage' = None
                     /\ UNCHANGED <<voltage, _pending_cmd, settles, polls,
                                    unequal, unsettled>>
                ELSE /\ voltage' = final_voltage
                     /\ polls' = Count(polls)
                     /\ unequal' = IF ~float_eq(initial_voltage[1], final_voltage[1])
                                   THEN Count(unequal) ELSE unequal
                     /\ IF ~float_eq(initial_voltage[1], final_voltage[1])
                        THEN /\ _pending_cmd' = None
                             /\ pc' = IF stage = "drain" THEN "set_body"
                                      ELSE "ready"
                             /\ stage' = "none"
                             /\ initial_voltage' = None
                             /\ settles' = settles + 1
                             /\ unsettled' = 0
                        ELSE /\ pc' = "poll_initial"
                             /\ UNCHANGED <<_pending_cmd, stage, settles,
                                            unsettled, initial_voltage>>
    /\ writes' = Count(writes)
    /\ UNCHANGED <<port, id, voltage_limit, call, ret, reflects, devTarget,
                   log, sleeps, prev>>

\* lines 68-75: final_voltage = self.get_voltage(verbose=False), the
\* comparison, and either the next cycle or the return.  polls and unequal
\* record the cycle and whether its two readings differed, whatever the
\* loop then does.
poll_final ==
    /\ pc = "poll_final"
    /\ \E lines \in VoltageLines, fault \in Faults :
         LET cmd == <<"xvoltage?">>
             r == read_voltage(inbuf \o device_answer(cmd, lines, fault))
             final_voltage == r.voltage
         IN  /\ inbuf' = r.inbuf
             /\ echo' = echoed(cmd, inbuf \o device_answer(cmd, lines, fault))
             /\ raised' = r.raised
             /\ IF r.raised # NoError
                THEN /\ pc' = "ready"
                     /\ stage' = "none"
                     /\ initial_voltage' = None
                     /\ UNCHANGED <<voltage, _pending_cmd, settles, polls,
                                    unequal, unsettled>>
                ELSE /\ voltage' = final_voltage
                     /\ polls' = Count(polls)
                     /\ unequal' = IF ~float_eq(initial_voltage[1], final_voltage[1])
                                   THEN Count(unequal) ELSE unequal
                     /\ IF float_eq(initial_voltage[1], final_voltage[1])
                        THEN /\ _pending_cmd' = None
                             /\ pc' = IF stage = "drain" THEN "set_body"
                                      ELSE "ready"
                             /\ stage' = "none"
                             /\ initial_voltage' = None
                             /\ settles' = settles + 1
                             /\ unsettled' = 0
                        ELSE /\ pc' = "poll_initial"
                             /\ UNCHANGED <<_pending_cmd, stage, settles,
                                            unsettled, initial_voltage>>
    /\ writes' = Count(writes)
    /\ UNCHANGED <<port, id, voltage_limit, call, ret, reflects, devTarget,
                   log, sleeps, prev>>

\* close() that leaves the port open while a move is outstanding
close_unless_pending ==
    /\ pc = "ready"
    /\ port' = IF _pending_cmd = None THEN "closed" ELSE port
    /\ pc' = "closed"
    /\ call' = [op |-> "close", voltage |-> 0, minus |-> FALSE, block |-> FALSE]
    /\ prev' = Summary
    /\ writes' = 0
    /\ settles' = 0
    /\ raised' = NoError
    /\ ret' = None
    /\ polls' = 0
    /\ unequal' = 0
    /\ sleeps' = 0
    /\ echo' = "none"
    /\ UNCHANGED <<inbuf, session, stage, reflects, devTarget, log, unsettled>>

\* close(): self.port.close()
close ==
    /\ pc = "ready"
    /\ port' = "closed"
    /\ pc' = "closed"
    /\ call' = [op |-> "close", voltage |-> 0, minus |-> FALSE, block |-> FALSE]
    /\ prev' = Summary
    /\ writes' = 0
    /\ settles' = 0
    /\ raised' = NoError
    /\ ret' = None
    /\ polls' = 0
    /\ unequal' = 0
    /\ sleeps' = 0
    /\ echo' = "none"
    /\ UNCHANGED <<inbuf, session, stage, reflects, devTarget, log, unsettled>>

Next ==
    \/ open_port
    \/ init_restore
    \/ init_id
    \/ init_vlimit
    \/ init_voltage
    \/ get_voltage
    \/ set_voltage
    \/ set_voltage_send
    \/ _finish_set_voltage
    \/ poll_initial
    \/ poll_sleep
    \/ poll_final
    \/ close

Spec == Init /\ [][Next]_vars

\* the caller, at position p inside a call, moves on: the step that
\* set_voltage_send, poll_initial, poll_sleep or poll_final takes from p
Leaves(p) ==
    /\ pc = p
    /\ pc' \in {"ready", "set_body", "poll_initial", "sleep", "poll_final"} \ {p}

\* the steps of a call that is running are taken: the caller's thread runs,
\* time.sleep returns, and a read returns when the reply has arrived or the
\* port's timeout has passed.  Whether and when the user makes another call
\* is left open.
FairSpec ==
    /\ Spec
    /\ WF_pc(Leaves("set_body"))
    /\ WF_pc(Leaves("poll_initial"))
    /\ WF_pc(Leaves("sleep"))
    /\ WF_pc(Leaves("poll_final"))

\* ------------------------------------------------------------------------
\* Properties
\* ------------------------------------------------------------------------
Written == {log[i] : i \in 1..Len(log)}

\* a public call has returned normally
Returned(op) == pc = "ready" /\ call.op = op /\ raised = NoError

\* C1: whenever set_voltage has failed with the out-of-range precondition
\* error, that call wrote no command to the transport, whether or not a move
\* was outstanding when it was called.
C1_RejectedWithoutWriting ==
    (pc = "ready" /\ call.op = "set_voltage" /\ raised = "AssertionError:89")
        => writes = 0

\* set_voltage(b, block=False) has returned, called right after a
\* set_voltage(a, block=False) that found no move outstanding and returned
TwoNonBlocking ==
    /\ Returned("set_voltage")
    /\ ~call.block
    /\ prev.op = "set_voltage"
    /\ ~prev.block
    /\ prev.settles = 0

\* _finish_set_voltage() has returned, called right after a
\* set_voltage(b, block=False) that drained an earlier move and returned
ThenFinished ==
    /\ Returned("_finish_set_voltage")
    /\ prev.op = "set_voltage"
    /\ ~prev.block
    /\ prev.settles = 1

\* C2 (as claimed): after set_voltage(a, block=False) immediately followed
\* by set_voltage(b, block=False) has returned, two settle detections have
\* completed and, with a device that reflects, self.voltage is b.
C2_TwoSettlesAndCurrentIsB ==
    TwoNonBlocking =>
        /\ prev.settles + settles = 2
        /\ reflects => voltage = <<float(format_2f(call.minus, call.voltage))>>

\* C2 (amended): after the two calls exactly one settle detection has
\* completed, move b is outstanding and, with a device that reflects,
\* self.voltage is the settled value of move a; the second settle detection
\* completes in the _finish_set_voltage that follows, after which
\* self.voltage is b and no move is outstanding.
C2_SecondSettleOnlyOnFinish ==
    /\ TwoNonBlocking =>
         /\ prev.settles + settles = 1
         /\ _pending_cmd = <<"xvoltage=">> \o format_2f(call.minus, call.voltage)
         /\ reflects => voltage = <<float(format_2f(prev.minus, prev.voltage))>>
    /\ ThenFinished =>
         /\ prev.settles + settles = 2
         /\ _pending_cmd = None
         /\ reflects => voltage = <<float(format_2f(prev.minus, prev.voltage))>>

C2_Witness ==
    /\ ThenFinished
    /\ reflects
    /\ prev.voltage = 12344
    /\ voltage = <<V(12340)>>

\* C3: at most one move is outstanding: no second 'xvoltage=<value>' command
\* is written before a settle detection has completed for the one before.
C3_AtMostOneOutstanding == unsettled <= 1

\* C4: a constructor that fails after the port was opened leaves the port
\* closed.
C4_FailedConnectClosesPort ==
    (pc = "failed" /\ raised # "IOError:20") => port = "closed"

\* C5: _finish_set_voltage called with no move outstanding returns at once,
\* writes and reads nothing, and leaves self.voltage and self._pending_cmd
\* as they were.
C5_FinishIsNoOp ==
    [][(pc = "ready" /\ _pending_cmd = None
            /\ call'.op = "_finish_set_voltage")
         => /\ pc' = "ready"
            /\ raised' = NoError
            /\ writes' = 0
            /\ echo' = "none"
            /\ UNCHANGED <<voltage, _pending_cmd, port, inbuf>>]_vars

C5_Witness ==
    /\ Returned("_finish_set_voltage")
    /\ _pending_cmd = None
    /\ writes = 0
    /\ polls = 0
    /\ voltage = <<V(12300)>>

\* C6: with a device that reflects, for every target v on the two-decimal
\* grid, a set_voltage(v, block=True) that returned followed by a
\* get_voltage() that returns gives v, and self.voltage is v.
C6_BlockingSetThenGet ==
    [][(/\ Returned("set_voltage")
        /\ call.block
        /\ call.voltage % 10 = 0
        /\ reflects
        /\ call'.op = "get_voltage"
        /\ raised' = NoError)
         => /\ voltage = <<V(call.voltage)>>
            /\ ret' = <<V(call.voltage)>>
            /\ voltage' = <<V(call.voltage)>>]_vars

C6_Witness ==
    /\ Returned("get_voltage")
    /\ reflects
    /\ prev.op = "set_voltage"
    /\ prev.block
    /\ prev.voltage = 12340
    /\ ret = <<V(12340)>>

\* the settle loop has run in this call and left through its break
LoopLeft == pc \in {"ready", "set_body"} /\ raised = NoError /\ polls > 0

\* C7: the settle loop performs exactly N poll cycles, N being the first
\* cycle whose two readings are equal: while it runs every completed cycle
\* had two different readings, when it is left the last cycle and no earlier
\* one had two equal readings, and every cycle waited once between its two
\* reads.  (Counts are exact below MaxCount.)
C7_ExactlyNPollCycles ==
    /\ pc \in {"poll_initial", "sleep", "poll_final"} =>
         /\ unequal = polls
         /\ sleeps = IF pc = "poll_final" THEN Count(polls) ELSE polls
    /\ LoopLeft =>
         /\ sleeps = polls
         /\ unequal >= polls - 1
         /\ polls < MaxCount => unequal = polls - 1

C7_Witness ==
    /\ LoopLeft
    /\ call.op = "_finish_set_voltage"
    /\ polls = 2
    /\ unequal = 1
    /\ sleeps = 2

\* C8: if the device answers 'vlimit?' with an integer outside
\* {75, 100, 150}, the constructor fails and 'xvoltage?' is never written.
C8_BadLimitFailsConnect ==
    (voltage_limit # None /\ voltage_limit[1] \notin {75, 100, 150})
        => /\ pc = "failed"
           /\ raised # NoError
           /\ <<"xvoltage?">> \notin Written

C8_Witness ==
    /\ pc = "failed"
    /\ voltage_limit = <<200>>
    /\ log = <<<<"restore">>, <<"id?">>, <<"vlimit?">>>>

\* C9: if the answer to 'id?' has a model line or a firmware line other than
\* the expected one, the constructor fails and neither 'vlimit?' nor
\* 'xvoltage?' is written.
C9_BadIdentityFailsConnect ==
    (id # None
        /\ (\/ Len(id) < 2
            \/ id[1] # <<"Model MDT694B Piezo Control Module">>
            \/ id[2] # <<"Firmware Version: 1.10">>))
        => /\ pc = "failed"
           /\ raised # NoError
           /\ <<"vlimit?">> \notin Written
           /\ <<"xvoltage?">> \notin Written

C9_Witness ==
    /\ pc = "failed"
    /\ Len(id) = 2
    /\ id[1] = <<"Model MDT694B Piezo Control Module">>
    /\ id[2] = <<"Firmware Version: 1.09">>

\* C10: when the first line of a response differs from the command written,
\* _send raises: the call it serves ends with the assertion error of _send
\* and hands no value back.
C10_EchoMismatchRaises ==
    echo = "differs" =>
        /\ raised \in {"AssertionError:45", "AssertionError:46"}
        /\ pc \in {"ready", "failed"}
        /\ ret = None

C10_Witness ==
    /\ echo = "differs"
    /\ call.op = "get_voltage"
    /\ raised = "AssertionError:46"

\* _finish_set_voltage() has returned after running its settle loop
FinishSettled == Returned("_finish_set_voltage") /\ settles = 1

\* C11 (as claimed): when _finish_set_voltage, called with a move
\* outstanding, returns after two equal readings, the value it returns is
\* the settled voltage, the final reading.
C11_FinishReturnsSettledValue == FinishSettled => ret = voltage

\* C11 (amended): it returns None; the settled voltage is left in
\* self.voltage, which holds a number.
C11_FinishReturnsNone ==
    FinishSettled => (ret = None /\ voltage # None)

C11_Witness ==
    /\ FinishSettled
    /\ ret = None
    /\ voltage = <<V(12300)>>
    /\ polls = 2

\* C12: close() can be called between any two calls on a constructed
\* Controller, whether or not a move is outstanding and whether or not an
\* earlier call raised, and once it has returned the port is closed.
C12_CloseReleasesPort ==
    /\ pc = "ready" => ENABLED close
    /\ pc = "closed" => (port = "closed" /\ raised = NoError)

\* close() has returned with a move outstanding, after a get_voltage() that
\* raised on bytes left in the input buffer
C12_Witness ==
    /\ pc = "closed"
    /\ port = "closed"
    /\ _pending_cmd # None
    /\ inbuf # <<>>

\* C13: self._pending_cmd changes only in two ways: from None to the set
\* command when set_voltage's _send of that command returned, and from a
\* command to None when the settle loop read two equal voltages; a
\* get_voltage() call leaves it alone.  So when set_voltage(v, block=True)
\* returns it is None, and when set_voltage(v, block=False) returns it is
\* the command for v.
C13_PendingTransitions ==
    [][/\ (_pending_cmd' # _pending_cmd /\ _pending_cmd' # None)
            => /\ _pending_cmd = None
               /\ pc = "set_body"
               /\ call.op = "set_voltage"
               /\ raised' = NoError
               /\ echo' = "match"
               /\ _pending_cmd' = <<"xvoltage=">> \o format_2f(call.minus, call.voltage)
       /\ (_pending_cmd # None /\ _pending_cmd' = None)
            => /\ pc = "poll_final"
               /\ raised' = NoError
               /\ initial_voltage = voltage'
       /\ call'.op = "get_voltage" => UNCHANGED _pending_cmd
       /\ (pc' = "ready" /\ call'.op = "set_voltage" /\ raised' = NoError)
            => IF call'.block THEN _pending_cmd' = None
               ELSE _pending_cmd'
                        = <<"xvoltage=">> \o format_2f(call'.minus, call'.voltage)]_vars

\* set_voltage(v, block=True) has returned with no move outstanding, having
\* drained the move that a set_voltage(a, block=False) left outstanding
C13_Witness ==
    /\ Returned("set_voltage")
    /\ call.block
    /\ _pending_cmd = None
    /\ prev.op = "set_voltage"
    /\ ~prev.block
    /\ settles = 2

\* C14: whenever the settle loop is left without an exception, by
\* _finish_set_voltage called with a move outstanding, the two readings of
\* its last cycle were equal, self.voltage is that final reading, and
\* self._pending_cmd is None.
C14_SettledOnReturn ==
    [][(pc = "poll_final" /\ pc' \in {"ready", "set_body"}
            /\ raised' = NoError)
         => /\ unequal' = unequal
            /\ polls' = Count(polls)
            /\ voltage' = initial_voltage
            /\ voltage' # None
            /\ _pending_cmd # None
            /\ _pending_cmd' = None]_vars

\* _finish_set_voltage() has returned after one poll cycle, both readings
\* -0.05
C14_Witness ==
    /\ FinishSettled
    /\ polls = 1
    /\ unequal = 0
    /\ voltage = <<V(-50)>>
    /\ _pending_cmd = None

\* the commands of a successful constructor, in order
ConnectCommands == <<<<"restore">>, <<"id?">>, <<"vlimit?">>, <<"xvoltage?">>>>

\* C15: the constructor writes 'restore', 'id?', 'vlimit?', 'xvoltage?' in
\* that order, each only after the response to the one before passed its
\* check, and nothing else; when it returns, all four were written,
\* self._pending_cmd is None and self.voltage is the voltage just read
\* (0.00 from a device that reports what it was commanded, after 'restore').
C15_ConnectSequence ==
    [][/\ log' # log
            => /\ Len(log) < 4
               /\ log' = SubSeq(ConnectCommands, 1, Len(log) + 1)
               /\ raised = NoError
               /\ echo = IF log = <<>> THEN "none" ELSE "match"
               /\ Len(log) >= 2
                    => id = <<<<"Model MDT694B Piezo Control Module">>,
                              <<"Firmware Version: 1.10">>>>
               /\ Len(log) >= 3
                    => (voltage_limit # None
                          /\ voltage_limit[1] \in {75, 100, 150})
       /\ (pc # "ready" /\ pc' = "ready" /\ call' = NoCall)
            => /\ log' = ConnectCommands
               /\ raised' = NoError
               /\ _pending_cmd' = None
               /\ voltage' # None
               /\ reflects => voltage' = <<V(0)>>
       /\ pc' \in {"ready", "set_body", "poll_initial", "sleep",
                   "poll_final", "closed"}
            => log' = ConnectCommands]_vars

\* the constructor has returned, the device having answered 12.3
C15_Witness ==
    /\ pc = "ready"
    /\ call = NoCall
    /\ log = ConnectCommands
    /\ voltage = <<V(12300)>>
    /\ _pending_cmd = None

\* C16: once a call has made a _send, bytes are left in the input buffer
\* exactly when the last _send raised the assertion of line 45, and the
\* call then hands no value back; so after a _send that returned the input
\* buffer is empty.
C16_InputBufferEmptyAfterSend ==
    echo # "none" =>
        /\ inbuf # <<>> <=> raised = "AssertionError:45"
        /\ raised = "AssertionError:45" => ret = None
        /\ raised = NoError => inbuf = <<>>

\* get_voltage() raised on the byte that followed the prompt
C16_Witness ==
    /\ pc = "ready"
    /\ call.op = "get_voltage"
    /\ echo = "match"
    /\ raised = "AssertionError:45"
    /\ inbuf = <<LF>>
    /\ ret = None

\* the settle loop of _finish_set_voltage is running
InLoop == pc \in {"poll_initial", "sleep", "poll_final"}

\* C17: the settle loop ends if the voltage the device reports, which every
\* read stores in self.voltage, stays the same from some time on; a cycle whose two readings differ is followed by
\* another cycle, self._pending_cmd still set; and the loop is left only
\* after a cycle with two equal readings or by an exception.
C17_LoopTermination ==
    /\ (<>[][voltage' = voltage]_voltage) => (InLoop ~> ~InLoop)
    /\ [][(pc = "poll_final" /\ raised' = NoError /\ unequal' # unequal)
            => (pc' = "poll_initial" /\ _pending_cmd' # None
                  /\ UNCHANGED <<_pending_cmd, stage, call>>)]_vars
    /\ [][(InLoop /\ ~InLoop')
            => \/ raised' # NoError
               \/ (pc = "poll_final" /\ unequal' = unequal
                     /\ voltage' = initial_voltage)]_vars

\* _finish_set_voltage() is still polling after two cycles whose readings
\* differed
C17_Witness ==
    /\ pc = "poll_initial"
    /\ stage = "direct"
    /\ polls = 2
    /\ unequal = 2
    /\ _pending_cmd # None

\* C18: once the constructor has returned, self.voltage is at least 0 and
\* at most self.voltage_limit, whatever number the device answers
\* 'xvoltage?' with.
C18_VoltageWithinLimit ==
    pc \in {"ready", "set_body", "poll_initial", "sleep", "poll_final",
            "closed"}
        => (float_le(Zero, voltage[1])
              /\ float_le(voltage[1], V(1000 * voltage_limit[1])))

\* C19: when a read of the settle loop raises one of _send's assertions
\* (bytes left in the input buffer, or an echo that differs), the call ends
\* with that exception in the same step, no read repeated, and
\* self._pending_cmd stays as it was, set; and a set_voltage or
\* _finish_set_voltage called while self._pending_cmd is set starts with
\* the settle loop.
C19_PollErrorKeepsPending ==
    [][/\ (pc \in {"poll_initial", "poll_final"}
             /\ raised' \in {"AssertionError:45", "AssertionError:46"})
            => /\ pc' = "ready"
               /\ stage' = "none"
               /\ _pending_cmd # None
               /\ UNCHANGED <<_pending_cmd, voltage, settles, polls, call>>
       /\ (pc = "ready" /\ _pending_cmd # None
             /\ call'.op \in {"set_voltage", "_finish_set_voltage"})
            => /\ pc' = "poll_initial"
               /\ UNCHANGED _pending_cmd]_vars

\* _finish_set_voltage() raised on a garbled echo in its second poll cycle,
\* the move still outstanding
C19_Witness ==
    /\ pc = "ready"
    /\ call.op = "_finish_set_voltage"
    /\ raised = "AssertionError:46"
    /\ polls = 1
    /\ _pending_cmd # None

\* C20: when the _send of the set command raises one of its assertions,
\* set_voltage ends with that exception and self._pending_cmd stays None,
\* although the command was written: a device that reports what it was
\* commanded now holds the new target.
C20_FailedSetLeavesNoPending ==
    [][(pc = "set_body"
          /\ raised' \in {"AssertionError:45", "AssertionError:46"})
         => /\ pc' = "ready"
            /\ _pending_cmd = None
            /\ _pending_cmd' = None
            /\ writes' = Count(writes)
            /\ unsettled' >= 1
            /\ reflects => devTarget'
                 = millivolts(float(format_2f(call.minus, call.voltage)))
            /\ UNCHANGED <<voltage, settles, polls>>]_vars

\* set_voltage(12.34) raised on a garbled echo of its set command: the
\* device holds 12.34, no move is recorded, self.voltage is the old reading
C20_Witness ==
    /\ pc = "ready"
    /\ call.op = "set_voltage"
    /\ raised = "AssertionError:46"
    /\ writes = 1
    /\ _pending_cmd = None
    /\ reflects
    /\ devTarget = 12340
    /\ voltage = <<V(0)>>

====
